---- MODULE Spec2Model ----
(***************************************************************************)
(* Clinical-trials search backend: the entity cache and extractor client   *)
(* of backend/openai_service.py and the search handler of                  *)
(* backend/routers/search.py.                                              *)
(*                                                                         *)
(* Python values are modelled as follows.  A str is a sequence of          *)
(* one-character strings.  Optional[X] is a sequence of length 0 (None)    *)
(* or 1 (the value).  A confidence is an integer number of 1/100000, so    *)
(* 0.8 is 80000.  The insertion-ordered dict _cache is a sequence of       *)
(* entries in dict order.  time.time() is the integer variable now.        *)
(***************************************************************************)
EXTENDS Integers, Sequences, FiniteSets, TLC

VARIABLES
    client,   \* OpenAIService.client is not None
    es,       \* main.es_client is truthy
    cache,    \* OpenAIService._cache, in dict (insertion) order
    now,      \* the value time.time() returns
    last,     \* the last call made on the service and what it did
    resp,     \* the outcome of the last search request
    tasks     \* the search requests in progress on the event loop

vars == <<client, es, cache, now, last, resp, tasks>>

(***************************************************************************)
(* Bounds of the model                                                     *)
(***************************************************************************)
\* _cache_max_size, scaled down from the 1000 of openai_service.py:34
cache_max_size == 2
\* the clock stops here
MaxClock == 600

(***************************************************************************)
(* Program constants                                                       *)
(***************************************************************************)
cache_ttl == 600
\* the confidence threshold 0.8 of search_trials, in 1/100000
HighConfidence == 80000
\* confidence: ge=0.0, le=1.0, in 1/100000
ConfidenceMax == 100000
\* SearchRequest.page_size: le=100
PageSizeMax == 100
\* find_similar_trials, page_size: le=20
SimilarPageSizeMax == 20

None == <<>>
Some(x) == <<x>>

(***************************************************************************)
(* str.lower(), str.strip(), str.split(), ' '.join and the md5 digest      *)
(***************************************************************************)
lower_char(ch) ==
    CASE ch = "C" -> "c"
      [] ch = "D" -> "d"
      [] OTHER -> ch

lower(s) == [i \in 1..Len(s) |-> lower_char(s[i])]

IsSpace(ch) == ch = " "

RECURSIVE lstrip(_)
lstrip(s) == IF s # <<>> /\ IsSpace(Head(s)) THEN lstrip(Tail(s)) ELSE s

RECURSIVE rstrip(_)
rstrip(s) ==
    IF s # <<>> /\ IsSpace(s[Len(s)]) THEN rstrip(SubSeq(s, 1, Len(s) - 1)) ELSE s

strip(s) == rstrip(lstrip(s))

\* ' '.join(v.split()): runs of whitespace become one space, the ends are trimmed
RECURSIVE collapse(_)
collapse(s) ==
    IF s = <<>> THEN <<>>
    ELSE IF IsSpace(Head(s))
         THEN IF Tail(s) = <<>> \/ IsSpace(Head(Tail(s)))
              THEN collapse(Tail(s))
              ELSE <<" ">> \o collapse(Tail(s))
         ELSE <<Head(s)>> \o collapse(Tail(s))

join_split(s) == collapse(lstrip(s))

CharCode(ch) ==
    CASE ch = " " -> 1
      [] ch = "c" -> 2
      [] ch = "C" -> 3
      [] ch = "d" -> 4
      [] ch = "D" -> 5
      [] ch = "e" -> 6
      [] ch = "f" -> 7
      [] OTHER -> 8

\* hashlib.md5(...).hexdigest(): a fixed function of the text, taken to be
\* free of collisions on the texts of the model
RECURSIVE md5(_)
md5(s) == IF s = <<>> THEN 0 ELSE CharCode(Head(s)) + 16 * md5(Tail(s))

\* variant: the key of the text as written, case kept
get_cache_key_upper(query) == md5(strip(query))

get_cache_key(query) == md5(strip(lower(query)))

(***************************************************************************)
(* The dict _cache                                                         *)
(***************************************************************************)
CacheKeys(c) == {c[i].key : i \in 1..Len(c)}

CacheIndex(c, k) == CHOOSE i \in 1..Len(c) : c[i].key = k

\* del d[k]
DictDel(c, k) == SelectSeq(c, LAMBDA e : e.key # k)

\* d[k] = v: a new key goes last, a key already there keeps its place
DictSet(c, k, entities, t) ==
    LET e == [key |-> k, entities |-> entities, timestamp |-> t]
    IN  IF k \in CacheKeys(c)
        THEN [c EXCEPT ![CacheIndex(c, k)] = e]
        ELSE Append(c, e)

\* next(iter(self._cache))
\* variant: the key inserted last
oldest_key_newest(c) == c[Len(c)].key

oldest_key(c) == c[1].key

\* variant: an entry of exactly the TTL still counts as fresh
Expired_inclusive(age) == age > cache_ttl

\* not (age < self._cache_ttl)
Expired(age) == age >= cache_ttl

get_from_cache(c, query, t) ==
    LET k == get_cache_key(query)
    IN  IF k \in CacheKeys(c)
        THEN LET e == c[CacheIndex(c, k)]
                 age == t - e.timestamp
             IN  IF ~Expired(age)
                 THEN [result |-> Some(e.entities), cache |-> c]
                 ELSE [result |-> None, cache |-> DictDel(c, k)]
        ELSE [result |-> None, cache |-> c]

\* variant: a full cache loses its two oldest entries
add_to_cache_evict_twice(c, query, entities, t) ==
    DictSet(IF Len(c) >= cache_max_size THEN Tail(Tail(c)) ELSE c,
            get_cache_key(query), entities, t)

\* variant: the key is the digest of the text as it was written
add_to_cache_raw_key(c, query, entities, t) ==
    DictSet(IF Len(c) >= cache_max_size THEN DictDel(c, oldest_key(c)) ELSE c,
            md5(query), entities, t)

\* variant: no eviction
add_to_cache_unbounded(c, query, entities, t) ==
    DictSet(c, get_cache_key(query), entities, t)

add_to_cache(c, query, entities, t) ==
    LET c1 == IF Len(c) >= cache_max_size THEN DictDel(c, oldest_key(c)) ELSE c
    IN  DictSet(c1, get_cache_key(query), entities, t)

(***************************************************************************)
(* The external extractor and ExtractedEntities                            *)
(***************************************************************************)
\* What chat.completions.create does: it raises, or it returns a message
\* whose content is None, is not JSON, or is a JSON object with a confidence
Raises == {"RateLimitError", "APIConnectionError", "APIError", "OpenAIError"}

Reply(kind, confidence) == [kind |-> kind, confidence |-> confidence]

FailingReplies ==
    {Reply(k, None) : k \in Raises \cup {"no_content", "malformed"}}
        \cup {Reply("json", Some(150000))}

\* the JSON objects the extractor is let to return for a query
JsonReplies(query) ==
    LET k == get_cache_key(query)
    IN  IF k = get_cache_key(<<"c">>) THEN {Reply("json", Some(80000)), Reply("json", None)}
        ELSE IF k = get_cache_key(<<"d">>) THEN {Reply("json", Some(79999))}
        ELSE {Reply("json", Some(100000))}

ExtractorReplies(query) == JsonReplies(query) \cup FailingReplies

\* confidence: Optional[float] = Field(None, ge=0.0, le=1.0)
ValidConfidence(conf) ==
    conf = None \/ (conf[1] >= 0 /\ conf[1] <= ConfidenceMax)

\* class ExtractedEntities: phase, status and study_type are None or a text,
\* the five list fields None or a list of texts
EntityFields(phase, conditions, interventions, status, study_type, sponsors, locations, keywords) ==
    [phase |-> phase, conditions |-> conditions, interventions |-> interventions,
     status |-> status, study_type |-> study_type, sponsors |-> sponsors,
     locations |-> locations, keywords |-> keywords]

\* every Optional field left at its default
NoFields == EntityFields(None, None, None, None, None, None, None, None)

Entities(f, original_query, conf) ==
    [phase |-> f.phase, conditions |-> f.conditions,
     interventions |-> f.interventions, status |-> f.status,
     study_type |-> f.study_type, sponsors |-> f.sponsors,
     locations |-> f.locations, keywords |-> f.keywords,
     original_query |-> original_query, confidence |-> conf]

\* str.upper() and str.replace(old, new) on the letters of the enum values
LowerCase ==
    <<"a", "b", "c", "d", "e", "f", "g", "h", "i", "j", "k", "l", "m",
      "n", "o", "p", "q", "r", "s", "t", "u", "v", "w", "x", "y", "z">>

UpperCase ==
    <<"A", "B", "C", "D", "E", "F", "G", "H", "I", "J", "K", "L", "M",
      "N", "O", "P", "Q", "R", "S", "T", "U", "V", "W", "X", "Y", "Z">>

upper_char(ch) ==
    IF \E i \in 1..Len(LowerCase) : LowerCase[i] = ch
    THEN UpperCase[CHOOSE i \in 1..Len(LowerCase) : LowerCase[i] = ch]
    ELSE ch

upper(s) == [i \in 1..Len(s) |-> upper_char(s[i])]

\* s.replace(ch, '')
remove(s, ch) == SelectSeq(s, LAMBDA x : x # ch)

\* s.replace(old, new), one character for another
replace(s, old, new) == [i \in 1..Len(s) |-> IF s[i] = old THEN new ELSE s[i]]

Member(v, list) == \E i \in 1..Len(list) : list[i] = v

valid_phases ==
    <<<<"P", "H", "A", "S", "E", "1">>, <<"P", "H", "A", "S", "E", "2">>,
      <<"P", "H", "A", "S", "E", "3">>, <<"P", "H", "A", "S", "E", "4">>,
      <<"P", "H", "A", "S", "E", "1", "/", "P", "H", "A", "S", "E", "2">>,
      <<"P", "H", "A", "S", "E", "2", "/", "P", "H", "A", "S", "E", "3">>,
      <<"N", "A">>>>

valid_statuses ==
    <<<<"R", "E", "C", "R", "U", "I", "T", "I", "N", "G">>,
      <<"N", "O", "T", "_", "Y", "E", "T", "_", "R", "E", "C", "R", "U", "I", "T", "I", "N", "G">>,
      <<"A", "C", "T", "I", "V", "E", "_", "N", "O", "T", "_", "R", "E", "C", "R", "U", "I", "T", "I", "N", "G">>,
      <<"C", "O", "M", "P", "L", "E", "T", "E", "D">>,
      <<"T", "E", "R", "M", "I", "N", "A", "T", "E", "D">>,
      <<"S", "U", "S", "P", "E", "N", "D", "E", "D">>,
      <<"W", "I", "T", "H", "D", "R", "A", "W", "N">>,
      <<"U", "N", "K", "N", "O", "W", "N">>>>

\* @validator('phase')
validate_phase(v) ==
    IF v = None THEN v
    ELSE LET v_upper == remove(remove(upper(v[1]), " "), "-")
         IN  IF ~Member(v[1], valid_phases) /\ Member(v_upper, valid_phases)
             THEN Some(v_upper)
             ELSE v

\* @validator('status')
validate_status(v) ==
    IF v = None THEN v
    ELSE LET v_upper == replace(upper(v[1]), " ", "_")
         IN  IF ~Member(v[1], valid_statuses) /\ Member(v_upper, valid_statuses)
             THEN Some(v_upper)
             ELSE v

\* study_type: Optional[str] = Field(None, ...): no validator
validate_study_type(v) == v

\* ExtractedEntities(**entities_dict) for a JSON object with the fields f:
\* the object with phase and status as their validators return them, or a
\* ValidationError
ExtractedEntitiesOf(f, original_query, conf) ==
    IF ValidConfidence(conf)
    THEN Some(Entities([f EXCEPT !.phase = validate_phase(f.phase),
                                 !.status = validate_status(f.status),
                                 !.study_type = validate_study_type(f.study_type)],
                       original_query, conf))
    ELSE None

\* ExtractedEntities(**entities_dict) for a JSON object that holds a
\* confidence and nothing else
ExtractedEntities(original_query, conf) ==
    ExtractedEntitiesOf(NoFields, original_query, conf)

\* the except clause of extract_entities that takes a failing reply
ExceptClause(reply) ==
    CASE reply.kind \in Raises -> reply.kind
      [] reply.kind = "malformed" -> "JSONDecodeError"
      [] OTHER -> "Exception"

\* variant: the reply is cached as soon as it parses
extract_entities_cache_partial(cl, c, query, t, t_put, reply) ==
    IF ~cl
    THEN [result |-> None, cache |-> c, api |-> "none", cache_read |-> FALSE]
    ELSE LET g == get_from_cache(c, query, t)
         IN  IF g.result # None
             THEN [result |-> g.result, cache |-> g.cache, api |-> "none",
                   cache_read |-> TRUE]
             ELSE IF reply.kind = "json"
                  THEN LET entities == ExtractedEntities(query, reply.confidence)
                           \* the entry is written before the object is validated
                           stored == [original_query |-> query,
                                      confidence |-> reply.confidence]
                       IN  [result |-> entities,
                            cache |-> add_to_cache(g.cache, query, stored, t_put),
                            api |-> IF entities # None THEN "ok" ELSE "Exception",
                            cache_read |-> TRUE]
                  ELSE [result |-> None, cache |-> g.cache,
                        api |-> ExceptClause(reply), cache_read |-> TRUE]

\* variant: the extractor is called without a look into the cache
extract_entities_no_cache_check(cl, c, query, t, t_put, reply) ==
    IF ~cl
    THEN [result |-> None, cache |-> c, api |-> "none", cache_read |-> FALSE]
    ELSE LET entities == IF reply.kind = "json"
                         THEN ExtractedEntities(query, reply.confidence)
                         ELSE None
         IN  IF entities # None
             THEN [result |-> entities,
                   cache |-> add_to_cache(c, query, entities[1], t_put),
                   api |-> "ok", cache_read |-> FALSE]
             ELSE [result |-> None, cache |-> c,
                   api |-> ExceptClause(reply), cache_read |-> FALSE]

\* variant: the cache is consulted before the client is checked
extract_entities_no_client_check(cl, c, query, t, t_put, reply) ==
    LET g == get_from_cache(c, query, t)
    IN  IF g.result # None
        THEN [result |-> g.result, cache |-> g.cache, api |-> "none",
              cache_read |-> TRUE]
        ELSE [result |-> None, cache |-> g.cache,
              api |-> IF cl THEN ExceptClause(reply) ELSE "Exception",
              cache_read |-> TRUE]

\* the try block of extract_entities from the moment chat.completions.create
\* is over: the reply is parsed and validated and the entities are stored at
\* t_put, or an except clause returns None
extractor_returned(c, query, t_put, reply) ==
    LET entities == IF reply.kind = "json"
                    THEN ExtractedEntities(query, reply.confidence)
                    ELSE None
    IN  IF entities # None
        THEN [result |-> entities,
              cache |-> add_to_cache(c, query, entities[1], t_put),
              api |-> "ok", cache_read |-> TRUE]
        ELSE [result |-> None, cache |-> c,
              api |-> ExceptClause(reply), cache_read |-> TRUE]

\* extract_entities(query): t is the clock at the cache lookup, t_put the
\* clock when the reply has arrived and the entry is stored
extract_entities(cl, c, query, t, t_put, reply) ==
    IF ~cl
    THEN [result |-> None, cache |-> c, api |-> "none", cache_read |-> FALSE]
    ELSE LET g == get_from_cache(c, query, t)
         IN  IF g.result # None
             THEN [result |-> g.result, cache |-> g.cache, api |-> "none",
                   cache_read |-> TRUE]
             ELSE extractor_returned(g.cache, query, t_put, reply)

is_available(cl) == cl

(***************************************************************************)
(* Calls on the service: the state machine                                 *)
(***************************************************************************)
\* the query texts the calls are made with
CacheQueries ==
    {<<"c">>, <<"C">>, <<" ", "C", " ">>, <<"d">>, <<"e">>, <<"f">>}

\* the clock moves on by one of these
Ticks == {599, 600}

\* the time the extractor takes to reply: a failure is reported at once, and
\* Tick lets time pass after it
ApiDelays(reply) ==
    IF reply.kind = "json" /\ ValidConfidence(reply.confidence) THEN {0, 600} ELSE {0}

\* a call: len(self._cache) when it began, what it returned, which outcome the
\* external extractor call had ("none": it was not called) and whether the
\* call looked into the cache
Call(op, query, size_before, result, api, cache_read) ==
    [op |-> op, query |-> query, size_before |-> size_before, result |-> result,
     api |-> api, cache_read |-> cache_read]

\* no query compiled
NoQuery ==
    [kind |-> "", size |-> 0, from_ |-> 0, query |-> "", clause |-> <<>>,
     must |-> <<>>, should |-> <<>>, filter |-> <<>>,
     minimum_should_match |-> None, excludes |-> <<>>, track_scores |-> None]

NoIndexCall == [kind |-> "", total |-> 0, hits |-> <<>>]

\* no search request has just been handled
NoResp ==
    [status |-> 0, query |-> <<>>, page |-> 0, page_size |-> 0, use_ai |-> FALSE,
     search_type |-> "", used_ai |-> FALSE, extracted_entities |-> None,
     es_query |-> NoQuery, get |-> "", index |-> NoIndexCall, total_pages |-> 0,
     results |-> <<>>]

\* Config.OPENAI_API_KEY: unset, empty or a key
ApiKeys == {None, Some(<<>>), Some(<<"k">>)}

\* OpenAIService.__init__: self.client
init_client(api_key) == api_key # None /\ api_key[1] # <<>>

\* the requests the server handles at a time
Tasks == {1, 2}

\* a request in progress: where its coroutine stands, the request, the
\* clock at its cache lookup and the entities its extraction returned
Task(pc, request, t, extracted_entities) ==
    [pc |-> pc, request |-> request, t |-> t,
     extracted_entities |-> extracted_entities]

\* no request
Idle == Task("idle", None, 0, None)

Init ==
    /\ \E api_key \in ApiKeys : client = init_client(api_key)
    /\ es \in BOOLEAN
    /\ cache = <<>>
    /\ now = 0
    /\ last = Call("init", <<>>, 0, None, "none", FALSE)
    /\ resp = NoResp
    /\ tasks = [r \in Tasks |-> Idle]

\* time passes
Tick ==
    \E d \in Ticks :
        /\ now + d <= MaxClock
        /\ now' = now + d
        /\ last' = Call("tick", <<>>, Len(cache), None, "none", FALSE)
        /\ resp' = NoResp
        /\ UNCHANGED <<tasks, client, es, cache>>

\* _get_from_cache(query)
Get ==
    \E query \in CacheQueries :
        LET g == get_from_cache(cache, query, now)
        IN  /\ cache' = g.cache
            /\ last' = Call("get", query, Len(cache), g.result, "none", TRUE)
            /\ resp' = NoResp
            /\ UNCHANGED <<tasks, client, es, now>>

\* _add_to_cache(query, entities)
Put ==
    \E query \in CacheQueries :
        \E reply \in JsonReplies(query) :
            LET entities == ExtractedEntities(query, reply.confidence)[1]
            IN  /\ cache' = add_to_cache(cache, query, entities, now)
                /\ last' = Call("put", query, Len(cache), Some(entities), "none", FALSE)
                /\ resp' = NoResp
                /\ UNCHANGED <<tasks, client, es, now>>

\* the replies a call for the query at time t can receive: the extractor is
\* called only by a client with credentials that finds no unexpired entry
RepliesTo(cl, c, query, t) ==
    IF cl /\ get_from_cache(c, query, t).result = None
    THEN ExtractorReplies(query)
    ELSE {Reply("not_called", None)}

\* extract_entities(query)
Extract ==
    \E query \in CacheQueries :
        \E reply \in RepliesTo(client, cache, query, now) :
            \E d \in ApiDelays(reply) :
                \E x \in {extract_entities(client, cache, query, now, now + d, reply)} :
                    /\ now + d <= MaxClock
                    /\ cache' = x.cache
                    /\ now' = now + d
                    /\ last' = Call("extract", query, Len(cache), x.result, x.api,
                                    x.cache_read)
                    /\ resp' = NoResp
                    /\ UNCHANGED <<tasks, client, es>>

\* the cache and the extractor client, called directly
Next == Tick \/ Get \/ Put \/ Extract

Spec == Init /\ [][Next]_vars

\* the cache as the program fills it: through extract_entities only
NextExtract == Tick \/ Extract

SpecExtract == Init /\ [][NextExtract]_vars

(***************************************************************************)
(* POST /api/search                                                        *)
(***************************************************************************)
\* SearchRequest: the field constraints and validate_query; None is the 422
\* the framework answers before the handler runs
SearchRequest(query, page, page_size, use_ai) ==
    IF Len(query) >= 1 /\ Len(query) <= 500 /\ strip(query) # <<>>
       /\ page >= 1 /\ page_size >= 1 /\ page_size <= PageSizeMax
    THEN Some([query |-> join_split(query), page |-> page, page_size |-> page_size,
               use_ai |-> use_ai])
    ELSE None

(***************************************************************************)
(* QueryBuilder.  A clause of the query DSL is a record: its type, the     *)
(* path of the nested query around it ("" when there is none), its fields  *)
(* with their weights, its text, its boost in tenths, its fuzziness, the   *)
(* best_fields flag, the clauses of an inner bool/should, and the three    *)
(* numbers of a more_like_this.  A compiled query names its builder and    *)
(* its top-level query; the keys a dict does not hold are empty or None.   *)
(***************************************************************************)
Clause(type, nested, fields, text, boost, fuzziness, best_fields, should, params) ==
    [type |-> type, nested |-> nested, fields |-> fields, query |-> text,
     boost |-> boost, fuzziness |-> fuzziness, best_fields |-> best_fields,
     should |-> should, params |-> params]

\* {"term": {field: value}}
Term(field, value) ==
    Clause("term", "", <<field>>, value, None, None, FALSE, <<>>, <<>>)

\* {"match": {field: {"query": text, "boost": boost}}}
Match(field, text, boost) ==
    Clause("match", "", <<field>>, text, Some(boost), None, FALSE, <<>>, <<>>)

\* {"match": {field: {"query": text, "fuzziness": "AUTO", "boost": boost}}}
FuzzyMatch(field, text, boost) ==
    Clause("match", "", <<field>>, text, Some(boost), Some("AUTO"), FALSE, <<>>, <<>>)

\* {"multi_match": {"query": text, "fields": fields, "boost": boost}}
MultiMatch(fields, text, boost) ==
    Clause("multi_match", "", fields, text, Some(boost), None, FALSE, <<>>, <<>>)

\* {"nested": {"path": path, "query": clause}}
Nested(path, clause) == [clause EXCEPT !.nested = path]

\* {"bool": {"should": clauses}}
BoolShould(clauses) ==
    Clause("bool", "", <<>>, <<>>, None, None, FALSE, clauses, <<>>)

\* variant: a field that is not None counts, the empty text included
Truthy_not_none(field) == field # None

\* bool(value) of an Optional[str] or Optional[List[str]] field
Truthy(field) == field # None /\ field[1] # <<>>

\* for item in field: the clauses made of each item, in order
RECURSIVE Concat(_)
Concat(lists) == IF lists = <<>> THEN <<>> ELSE Head(lists) \o Concat(Tail(lists))

\* if entities.field: for item in entities.field: the items gone through
Items(field) == IF Truthy(field) THEN field[1] ELSE <<>>

\* the filter clauses of build_intelligent_query
filter_clauses(entities) ==
    (IF Truthy(entities.phase) THEN <<Term("phase", entities.phase[1])>> ELSE <<>>)
    \o (IF Truthy(entities.status)
        THEN <<Term("overall_status", entities.status[1])>> ELSE <<>>)
    \o (IF Truthy(entities.study_type)
        THEN <<Term("study_type", entities.study_type[1])>> ELSE <<>>)

\* facilities.city / state / country at descending weights
LocationClause(location, city, state, country) ==
    Nested("facilities",
           BoolShould(<<Match("facilities.city", location, city),
                        Match("facilities.state", location, state),
                        Match("facilities.country", location, country)>>))

\* variant: the full-text clause is added to every query
fallback_always(should, original_query) == original_query # <<>>

\* if not should_clauses and entities.original_query
fallback(should, original_query) == should = <<>> /\ original_query # <<>>

\* the should clauses of build_intelligent_query
should_clauses(entities) ==
    LET condition(c) ==
            <<Nested("conditions", Match("conditions.name", c, 30)),
              MultiMatch(<<"brief_title^2", "official_title^1.5",
                           "brief_summaries_description">>, c, 15)>>
        intervention(i) ==
            <<Nested("interventions", Match("interventions.name", i, 30)),
              Nested("interventions", Match("interventions.description", i, 15))>>
        sponsor(sp) ==
            <<Nested("sponsors", Match("sponsors.name", sp, 25)),
              Match("source", sp, 20)>>
        location(l) == <<LocationClause(l, 30, 25, 20)>>
        keyword(k) ==
            <<MultiMatch(<<"brief_title^2", "official_title^1.5",
                           "brief_summaries_description",
                           "detailed_description">>, k, 10)>>
        IfEach(field, clauses(_)) ==
            Concat([i \in 1..Len(Items(field)) |-> clauses(Items(field)[i])])
        specific ==
            IfEach(entities.conditions, condition)
            \o IfEach(entities.interventions, intervention)
            \o IfEach(entities.sponsors, sponsor)
            \o IfEach(entities.locations, location)
            \o IfEach(entities.keywords, keyword)
    IN  specific
        \o (IF fallback(specific, entities.original_query)
            THEN <<[MultiMatch(<<"brief_title^3", "official_title^2",
                                 "brief_summaries_description^1.5",
                                 "detailed_description">>,
                               entities.original_query, 20)
                    EXCEPT !.best_fields = TRUE]>>
            ELSE <<>>)

\* variant: minimum_should_match whenever there are should clauses
minimum_should_match_always(should, filter) ==
    IF should # <<>> THEN Some(1) ELSE None

\* if should_clauses: ... if not filter_clauses: minimum_should_match = 1
minimum_should_match(should, filter) ==
    IF should # <<>> /\ filter = <<>> THEN Some(1) ELSE None

\* "_source": {"excludes": ["detailed_description"]}
source_excludes == <<"detailed_description">>

build_intelligent_query(entities, size, from_) ==
    LET must == <<>>
        should == should_clauses(entities)
        filter == filter_clauses(entities)
    IN  [kind |-> "intelligent", size |-> size, from_ |-> from_,
         query |-> IF must # <<>> \/ should # <<>> \/ filter # <<>>
                   THEN "bool" ELSE "match_all",
         clause |-> <<>>, must |-> must, should |-> should, filter |-> filter,
         minimum_should_match |-> minimum_should_match(should, filter),
         excludes |-> source_excludes, track_scores |-> Some(TRUE)]

build_basic_query(query_text, size, from_) ==
    [kind |-> "basic", size |-> size, from_ |-> from_, query |-> "multi_match",
     clause |-> <<Clause("multi_match", "",
                         <<"brief_title^3", "official_title^2",
                           "brief_summaries_description^1.5",
                           "detailed_description", "conditions.name^2",
                           "interventions.name^2", "keywords">>,
                         query_text, None, Some("AUTO"), TRUE, <<>>, <<>>)>>,
     must |-> <<>>, should |-> <<>>, filter |-> <<>>,
     minimum_should_match |-> None,
     excludes |-> source_excludes, track_scores |-> Some(TRUE)]

\* variant: the hybrid query filters as the intelligent query does
build_hybrid_query_filtered(query_text, entities, size, from_) ==
    [build_intelligent_query(entities[1], size, from_) EXCEPT !.kind = "hybrid"]

\* variant: every extracted list adds its clauses
hybrid_boosts_every_list(entities) ==
    IF entities # None THEN should_clauses(entities[1]) ELSE <<>>

\* if entities: the clauses added for its sponsors and its locations
hybrid_boosts(entities) ==
    LET sponsor(sp) == <<Nested("sponsors", Match("sponsors.name", sp, 30))>>
        location(l) == <<LocationClause(l, 35, 30, 25)>>
        IfEach(field, clauses(_)) ==
            Concat([i \in 1..Len(Items(field)) |-> clauses(Items(field)[i])])
    IN  IF entities # None
        THEN IfEach(entities[1].sponsors, sponsor)
             \o IfEach(entities[1].locations, location)
        ELSE <<>>

\* entities is the Optional[ExtractedEntities] of the signature
build_hybrid_query(query_text, entities, size, from_) ==
    LET fuzzy(fields, boost) ==
            Clause("multi_match", "", fields, query_text, Some(boost),
                   Some("AUTO"), FALSE, <<>>, <<>>)
        fan_out ==
            <<[fuzzy(<<"brief_title^3", "official_title^2",
                       "brief_summaries_description^1.5",
                       "detailed_description", "keywords">>, 20)
               EXCEPT !.best_fields = TRUE],
              Nested("conditions", FuzzyMatch("conditions.name", query_text, 25)),
              Nested("interventions",
                     fuzzy(<<"interventions.name^2",
                             "interventions.description">>, 20)),
              Nested("sponsors", FuzzyMatch("sponsors.name", query_text, 25)),
              Nested("facilities",
                     fuzzy(<<"facilities.city^3", "facilities.state^2.5",
                             "facilities.country^2", "facilities.name">>, 20)),
              FuzzyMatch("source", query_text, 15)>>
    IN  [kind |-> "hybrid", size |-> size, from_ |-> from_, query |-> "bool",
         clause |-> <<>>, must |-> <<>>, should |-> fan_out \o hybrid_boosts(entities),
         filter |-> <<>>, minimum_should_match |-> Some(1),
         excludes |-> source_excludes, track_scores |-> Some(TRUE)]

\* the more_like_this query on the reference document
build_similar_trials_query(nct_id, size, from_) ==
    [kind |-> "similar", size |-> size, from_ |-> from_,
     query |-> "more_like_this",
     clause |-> <<Clause("more_like_this", "",
                         <<"brief_title", "brief_summaries_description",
                           "conditions.name", "interventions.name">>,
                         nct_id, None, None, FALSE, <<>>, <<1, 2, 25>>)>>,
     must |-> <<>>, should |-> <<>>, filter |-> <<>>,
     minimum_should_match |-> None,
     excludes |-> source_excludes, track_scores |-> None]

\* the terms aggregations of get_filters, no documents
build_aggregation_query ==
    [kind |-> "aggregation", size |-> 0, from_ |-> 0, query |-> "aggs",
     clause |-> <<>>, must |-> <<>>, should |-> <<>>, filter |-> <<>>,
     minimum_should_match |-> None, excludes |-> <<>>, track_scores |-> None]

\* A record of the index is modelled by the brief_title of its _source: the
\* dict has no such key, or it holds a value under it, null or a text
NoKey == <<>>

Field(value) == <<value>>

\* chr(0), one of the control characters
NUL == "NUL"

\* the characters of chr(0)..chr(31) other than newline, return and tab go
remove_control(text) == SelectSeq(text, LAMBDA ch : ch # NUL)

\* DataPreprocessor._clean_text_fields on brief_title: a title that is not
\* there, null or empty is left alone; a text is cleaned and stored, as
\* null when nothing is left of it (the texts are short of the 30000
\* characters where it is cut)
clean_text_fields(source) ==
    IF source = NoKey \/ source[1] = None \/ source[1][1] = <<>>
    THEN source
    ELSE LET text == join_split(remove_control(source[1][1]))
         IN  Field(IF text # <<>> THEN Some(text) ELSE None)

\* the brief_title of the records handed to the preprocessor
RawTitles ==
    {NoKey, Field(None), Field(Some(<<>>)), Field(Some(<<" ", NUL>>)),
     Field(Some(<<" ", "T", " ">>))}

\* what es.search does: it raises, or it returns a total and hits, which are
\* records as the preprocessor left them
IndexOk(total, hits) == [kind |-> "ok", total |-> total, hits |-> hits]

IndexRaises(kind) == [kind |-> kind, total |-> 0, hits |-> <<>>]

IndexOutcomes ==
    {IndexOk(0, <<>>),
     IndexOk(45, <<clean_text_fields(Field(Some(<<" ", "T", " ">>))),
                   clean_text_fields(NoKey)>>),
     IndexOk(45, <<clean_text_fields(Field(Some(<<" ", NUL>>)))>>),
     IndexRaises("RequestError"), IndexRaises("ConnectionError"),
     IndexRaises("NotFoundError")}

\* the placeholder 'No title'
NoTitle == <<"N", "o", " ", "t", "i", "t", "l", "e">>

\* source.get('brief_title', 'No title'): the default is for a key that is
\* not there
brief_title(hit) == IF hit = NoKey THEN Some(NoTitle) ELSE hit[1]

\* TrialSummary(...): brief_title is a required str, None does not validate
TrialSummaryValid(hit) == brief_title(hit) # None

\* extracted_entities.confidence or 0.0
confidence_or_zero(entities) ==
    IF entities.confidence = None THEN 0 ELSE entities.confidence[1]

\* variant: 0.8 itself is not enough
HighEnough_strict(confidence) == confidence > HighConfidence

\* confidence >= 0.8
HighEnough(confidence) == confidence >= HighConfidence

\* variant: use_ai is not looked at
use_extractor_always(request, cl) == is_available(cl)

\* request.use_ai and openai_service.is_available()
use_extractor(request, cl) == request.use_ai /\ is_available(cl)

\* variant: a failed extraction ends the request
try_extraction_abort(x) ==
    [extracted_entities |-> x.result, aborted |-> x.api \notin {"none", "ok"}]

\* try: extracted_entities = await extract_entities(...) except Exception:
\* the entities are what the call returned, and the request goes on
try_extraction(x) == [extracted_entities |-> x.result, aborted |-> FALSE]

HttpError(request, status, es_query, index) ==
    [status |-> status, query |-> request.query, page |-> request.page,
     page_size |-> request.page_size, use_ai |-> request.use_ai,
     search_type |-> "", used_ai |-> FALSE, extracted_entities |-> None,
     es_query |-> es_query, get |-> "", index |-> index, total_pages |-> 0,
     results |-> <<>>]

\* from_offset = (page - 1) * page_size
offset(page, page_size) == (page - 1) * page_size

\* variant: a last page that is not full is not counted
total_pages_floor(total_results, page_size) == total_results \div page_size

\* total_pages = (total_results + page_size - 1) // page_size
total_pages(total_results, page_size) ==
    (total_results + page_size - 1) \div page_size

\* variant: the es client is not looked at
unavailable_never(es_client) == FALSE

\* if not es: raise HTTPException(status_code=503)
unavailable(es_client) == ~es_client

\* variant: the HTTPException of the inner except clauses is caught again
search_error_status_remapped(kind) == 500

\* es.search raised: except RequestError -> 400, except ESConnectionError ->
\* 503, passed on by except HTTPException: raise; except Exception -> 500
search_error_status(kind) ==
    CASE kind = "RequestError" -> 400
      [] kind = "ConnectionError" -> 503
      [] OTHER -> 500

NotExtracted(c) == [result |-> None, cache |-> c, api |-> "none", cache_read |-> FALSE]

\* variant: the strategy that was asked for
search_type_requested(request, cl, extracted_entities) ==
    IF use_extractor(request, cl) THEN "intelligent" ELSE "basic"

\* search_type = "basic"; "intelligent" once entities came back; then set
\* again by the branch that compiles the query
search_type(request, cl, extracted_entities) ==
    LET search_type_1 == IF use_extractor(request, cl) /\ extracted_entities # None
                         THEN "intelligent" ELSE "basic"
    IN  IF extracted_entities # None
        THEN IF HighEnough(confidence_or_zero(extracted_entities[1]))
             THEN "intelligent" ELSE "hybrid"
        ELSE search_type_1

\* Step 2 of search_trials: the query compiled for what the extraction left
compile_query(request, extracted_entities) ==
    LET from_offset == offset(request.page, request.page_size)
    IN  IF extracted_entities # None
        THEN IF HighEnough(confidence_or_zero(extracted_entities[1]))
             THEN build_intelligent_query(extracted_entities[1],
                                          request.page_size, from_offset)
             ELSE build_hybrid_query(request.query, extracted_entities,
                                     request.page_size, from_offset)
        ELSE build_basic_query(request.query, request.page_size, from_offset)

\* Steps 3 to 5 of search_trials: index is what es.search did; the response
\* or the HTTPException
search_response(request, cl, extracted_entities, index) ==
    LET es_query == compile_query(request, extracted_entities)
    IN  IF index.kind # "ok"
        THEN HttpError(request, search_error_status(index.kind), es_query, index)
        ELSE IF \E i \in 1..Len(index.hits) : ~TrialSummaryValid(index.hits[i])
        THEN HttpError(request, 500, es_query, index)
        ELSE [status |-> 200, query |-> request.query, page |-> request.page,
              page_size |-> request.page_size, use_ai |-> request.use_ai,
              search_type |-> search_type(request, cl, extracted_entities),
              used_ai |-> extracted_entities # None,
              extracted_entities |-> extracted_entities,
              es_query |-> es_query, get |-> "", index |-> index,
              total_pages |-> total_pages(index.total, request.page_size),
              results |-> [i \in 1..Len(index.hits) |->
                              brief_title(index.hits[i])[1]]]

\* search_trials(request): the response or the HTTPException, the cache it
\* leaves and what the extractor client did
search_trials(request, es_client, cl, c, t, t_put, reply, index) ==
    IF unavailable(es_client)
    THEN [resp |-> HttpError(request, 503, NoQuery, NoIndexCall), x |-> NotExtracted(c)]
    ELSE
    LET x == IF use_extractor(request, cl)
             THEN extract_entities(cl, c, request.query, t, t_put, reply)
             ELSE NotExtracted(c)
        tried == try_extraction(x)
    IN  IF tried.aborted
        THEN [resp |-> HttpError(request, 500, NoQuery, NoIndexCall), x |-> x]
        ELSE [resp |-> search_response(request, cl, tried.extracted_entities, index),
              x |-> x]

\* the requests made
SearchQueries == {<<"c">>, <<"C">>, <<" ", "d", " ">>, <<" ">>}

Pages == {3}

PageSizes == {20}

Search ==
    \E query \in SearchQueries, use_ai \in BOOLEAN :
        \E request \in {SearchRequest(query, 1, 1, use_ai)} :
            IF request = None
            THEN /\ resp' = [NoResp EXCEPT !.status = 422]
                 /\ last' = Call("search", query, Len(cache), None, "none", FALSE)
                 /\ UNCHANGED <<tasks, client, es, cache, now>>
            ELSE \E reply \in RepliesTo(es /\ use_extractor(request[1], client), cache,
                                        request[1].query, now) :
                 \E d \in ApiDelays(reply) :
                 \E page \in Pages, page_size \in PageSizes :
                 \E index \in IF es THEN IndexOutcomes ELSE {NoIndexCall} :
                 \E s \in {search_trials(SearchRequest(query, page, page_size, use_ai)[1],
                                         es, client, cache, now, now + d, reply, index)} :
                     /\ now + d <= MaxClock
                     /\ cache' = s.x.cache
                     /\ now' = now + d
                     /\ resp' = s.resp
                     /\ last' = Call("search", request[1].query, Len(cache),
                                     s.x.result, s.x.api, s.x.cache_read)
                     /\ UNCHANGED <<tasks, client, es>>

\* search requests as the clock moves
NextSearch == Tick \/ Search

SpecSearch == Init /\ [][NextSearch]_vars

(***************************************************************************)
(* Concurrent search requests.  The server runs the coroutines of the      *)
(* handlers on one event loop, and a coroutine keeps the loop until it     *)
(* awaits a call that suspends.  es is an AsyncElasticsearch, so           *)
(* await es.search suspends.  client is the synchronous OpenAI client:     *)
(* chat.completions.create returns when the reply is there, and the        *)
(* coroutine that called it keeps the loop until then.                     *)
(***************************************************************************)
\* variant: the extractor is called through an awaited client
suspends_always(pc) == TRUE

\* the call a coroutine stands at gives the loop away
suspends(pc) == pc = "index"

\* the coroutine of r stands in a call and has kept the loop
holds_loop(ts, r) == ts[r].pc # "idle" /\ ~suspends(ts[r].pc)

\* the loop is free to run the coroutine of r
runnable(ts, r) == \A q \in Tasks \ {r} : ~holds_loop(ts, q)

\* the texts of the concurrent requests
ConcurrentQueries == {<<"c">>, <<"C">>, <<"d">>, <<"e">>}

\* the extractor replies with a JSON object, or the call times out
ConcurrentReplies(query) == JsonReplies(query) \cup {Reply("APIConnectionError", None)}

ConcurrentIndexOutcomes == {IndexOk(45, <<Field(Some(<<"T">>))>>)}

\* search_trials from its first line to its first call: the 503 of a missing
\* index client, the call of the extractor after a cache miss, or the query
\* compiled and submitted
Begin(r) ==
    /\ tasks[r].pc = "idle"
    /\ runnable(tasks, r)
    /\ \E query \in ConcurrentQueries, use_ai \in BOOLEAN :
           LET request == SearchRequest(query, 1, 20, use_ai)[1]
               g == get_from_cache(cache, request.query, now)
           IN  IF unavailable(es)
               THEN /\ resp' = HttpError(request, 503, NoQuery, NoIndexCall)
                    /\ last' = Call("begin", request.query, Len(cache), None,
                                    "none", FALSE)
                    /\ UNCHANGED <<tasks, cache>>
               ELSE IF ~use_extractor(request, client)
               THEN /\ tasks' = [tasks EXCEPT ![r] = Task("index", Some(request), now, None)]
                    /\ last' = Call("begin", request.query, Len(cache), None,
                                    "none", FALSE)
                    /\ resp' = NoResp
                    /\ UNCHANGED cache
               ELSE /\ cache' = g.cache
                    /\ tasks' = [tasks EXCEPT ![r] =
                                    Task(IF g.result # None THEN "index" ELSE "extractor",
                                         Some(request), now, g.result)]
                    /\ last' = Call("begin", request.query, Len(cache), g.result,
                                    IF g.result # None THEN "none" ELSE "called", TRUE)
                    /\ resp' = NoResp
    /\ UNCHANGED <<client, es, now>>

\* chat.completions.create is over: the rest of extract_entities, then the
\* query compiled and submitted
ExtractorReturns(r) ==
    /\ tasks[r].pc = "extractor"
    /\ runnable(tasks, r)
    /\ \E reply \in ConcurrentReplies(tasks[r].request[1].query) :
           \E d \in ApiDelays(reply) :
               LET request == tasks[r].request[1]
                   x == extractor_returned(cache, request.query, now + d, reply)
                   tried == try_extraction(x)
               IN  /\ now + d <= MaxClock
                   /\ now' = now + d
                   /\ cache' = x.cache
                   /\ last' = Call("extractor_returned", request.query, Len(cache),
                                   x.result, x.api, TRUE)
                   /\ IF tried.aborted
                      THEN /\ tasks' = [tasks EXCEPT ![r] = Idle]
                           /\ resp' = HttpError(request, 500, NoQuery, NoIndexCall)
                      ELSE /\ tasks' = [tasks EXCEPT ![r] =
                                           Task("index", Some(request), tasks[r].t,
                                                tried.extracted_entities)]
                           /\ resp' = NoResp
    /\ UNCHANGED <<client, es>>

\* es.search is over: the hits mapped and the response returned
IndexReturns(r) ==
    /\ tasks[r].pc = "index"
    /\ runnable(tasks, r)
    /\ \E index \in ConcurrentIndexOutcomes :
           /\ resp' = search_response(tasks[r].request[1], client,
                                      tasks[r].extracted_entities, index)
           /\ last' = Call("respond", tasks[r].request[1].query, Len(cache),
                           tasks[r].extracted_entities, "none", FALSE)
           /\ tasks' = [tasks EXCEPT ![r] = Idle]
    /\ UNCHANGED <<client, es, cache, now>>

\* the requests of all tasks, interleaved as the loop lets them
NextConcurrent ==
    \/ Tick
    \/ \E r \in Tasks : Begin(r)
    \/ \E r \in Tasks : ExtractorReturns(r)
    \/ \E r \in Tasks : IndexReturns(r)

SpecConcurrent == Init /\ [][NextConcurrent]_vars

(***************************************************************************)
(* The other operations of the router: find_similar_trials,                *)
(* get_trial_detail and get_filters                                        *)
(***************************************************************************)
Digits == {"0", "1", "2", "3", "4", "5", "6", "7", "8", "9"}

\* regex="^NCT[0-9]{8}$"
nct_id_pattern(nct_id) ==
    /\ Len(nct_id) = 11
    /\ SubSeq(nct_id, 1, 3) = <<"N", "C", "T">>
    /\ \A i \in 4..11 : nct_id[i] \in Digits

\* the parameters of find_similar_trials as FastAPI lets them in
SimilarRequest(nct_id, page, page_size) ==
    IF nct_id_pattern(nct_id) /\ page >= 1 /\ page_size >= 1
       /\ page_size <= SimilarPageSizeMax
    THEN Some([query |-> nct_id, page |-> page, page_size |-> page_size,
               use_ai |-> FALSE])
    ELSE None

\* what es.get does: it returns the document, or it raises
GetOutcomes == {"ok", "NotFoundError", "ConnectionError", "RequestError"}

\* f"Similar to {nct_id}"
SimilarTo(nct_id) == <<"S", "i", "m", "i", "l", "a", "r", " ", "t", "o", " ">> \o nct_id

\* the HTTPException of an operation that looks a record up first
LookupError(request, status, es_query, got, index) ==
    [HttpError(request, status, es_query, index) EXCEPT !.get = got]

\* variant: a missing reference record is not told from a held one
reference_missing_never(got) == FALSE

\* except NotFoundError around es.get
reference_missing(got) == got = "NotFoundError"

\* variant: the response reports the strategy of a text search
similar_search_type_basic == "basic"

\* search_type="similar"
similar_search_type == "similar"

\* find_similar_trials(nct_id, page, page_size): the response or the
\* HTTPException; got is what es.get did, index what es.search did
find_similar_trials(request, es_client, got, index) ==
    LET from_offset == offset(request.page, request.page_size)
        similar_query == build_similar_trials_query(request.query, request.page_size,
                                                    from_offset)
    IN  IF unavailable(es_client)
        THEN LookupError(request, 503, NoQuery, "", NoIndexCall)
        ELSE IF reference_missing(got)
        THEN LookupError(request, 404, NoQuery, got, NoIndexCall)
        ELSE IF got # "ok"
        THEN LookupError(request, 500, NoQuery, got, NoIndexCall)
        ELSE IF index.kind # "ok"
                \/ \E i \in 1..Len(index.hits) : ~TrialSummaryValid(index.hits[i])
        THEN LookupError(request, 500, similar_query, got, index)
        ELSE [status |-> 200, query |-> SimilarTo(request.query),
              page |-> request.page, page_size |-> request.page_size,
              use_ai |-> FALSE, search_type |-> similar_search_type,
              used_ai |-> FALSE, extracted_entities |-> None,
              es_query |-> similar_query, get |-> got, index |-> index,
              total_pages |-> total_pages(index.total, request.page_size),
              results |-> [i \in 1..Len(index.hits) |-> brief_title(index.hits[i])[1]]]

\* get_trial_detail(nct_id): except NotFoundError -> 404, every other
\* exception of es.get -> 500
get_trial_detail(request, es_client, got) ==
    IF unavailable(es_client)
    THEN LookupError(request, 503, NoQuery, "", NoIndexCall)
    ELSE IF got = "NotFoundError"
    THEN LookupError(request, 404, NoQuery, got, NoIndexCall)
    ELSE IF got # "ok"
    THEN LookupError(request, 500, NoQuery, got, NoIndexCall)
    ELSE [LookupError(request, 200, NoQuery, got, NoIndexCall)
          EXCEPT !.results = <<request.query>>]

\* get_filters(): every exception of es.search -> 500
get_filters(es_client, index) ==
    LET request == [query |-> <<>>, page |-> 0, page_size |-> 0, use_ai |-> FALSE]
    IN  IF unavailable(es_client)
        THEN HttpError(request, 503, NoQuery, NoIndexCall)
        ELSE IF index.kind # "ok"
        THEN HttpError(request, 500, build_aggregation_query, index)
        ELSE HttpError(request, 200, build_aggregation_query, index)

NctIds ==
    {<<"N", "C", "T", "0", "0", "0", "0", "0", "0", "0", "1">>,
     <<"N", "C", "T", "0", "6", "8", "9", "0", "3", "5", "1">>,
     <<"N", "C", "T", "1">>}

\* the pages and page sizes asked for, those out of bounds among them
ApiPages == {0, 1, 3}

ApiPageSizes == {0, 1, 10, 20, 21, 100, 101}

\* the totals the index reports
ApiTotals == {0, 1, 45, 100, 101}

ApiIndexOutcomes ==
    {IndexOk(t, IF t = 0 THEN <<>> ELSE <<Field(Some(<<"T">>))>>) : t \in ApiTotals}
        \cup {IndexOk(45, <<clean_text_fields(s)>>) : s \in RawTitles}
        \cup {IndexRaises("RequestError"), IndexRaises("ConnectionError"),
              IndexRaises("NotFoundError")}

\* the request as it was made, for an answer that has no request object
Rejected(query, page, page_size, use_ai) ==
    HttpError([query |-> query, page |-> page, page_size |-> page_size,
               use_ai |-> use_ai], 422, NoQuery, NoIndexCall)

\* POST /search with the text "c"
SearchPaged ==
    \E use_ai \in BOOLEAN, page \in ApiPages, page_size \in ApiPageSizes :
        \E request \in {SearchRequest(<<"c">>, page, page_size, use_ai)} :
            IF request = None
            THEN /\ resp' = Rejected(<<"c">>, page, page_size, use_ai)
                 /\ last' = Call("search", <<"c">>, Len(cache), None, "none", FALSE)
                 /\ UNCHANGED <<tasks, client, es, cache, now>>
            ELSE \E reply \in RepliesTo(es /\ use_extractor(request[1], client), cache,
                                        request[1].query, now) :
                 \E index \in IF es THEN ApiIndexOutcomes ELSE {NoIndexCall} :
                 \E s \in {search_trials(request[1], es, client, cache, now, now,
                                         reply, index)} :
                     /\ cache' = s.x.cache
                     /\ resp' = s.resp
                     /\ last' = Call("search", request[1].query, Len(cache),
                                     s.x.result, s.x.api, s.x.cache_read)
                     /\ UNCHANGED <<tasks, client, es, now>>

\* GET /similar/{nct_id}
Similar ==
    \E nct_id \in NctIds, page \in ApiPages, page_size \in ApiPageSizes :
        \E request \in {SimilarRequest(nct_id, page, page_size)} :
            /\ IF request = None
               THEN resp' = Rejected(nct_id, page, page_size, FALSE)
               ELSE \E got \in IF es THEN GetOutcomes ELSE {""} :
                    \E index \in IF es /\ got = "ok" THEN ApiIndexOutcomes
                                 ELSE {NoIndexCall} :
                        resp' = find_similar_trials(request[1], es, got, index)
            /\ last' = Call("find_similar", nct_id, Len(cache), None, "none", FALSE)
            /\ UNCHANGED <<tasks, client, es, cache, now>>

\* GET /trial/{nct_id}
Detail ==
    \E nct_id \in NctIds :
        /\ IF ~nct_id_pattern(nct_id)
           THEN resp' = Rejected(nct_id, 0, 0, FALSE)
           ELSE \E got \in IF es THEN GetOutcomes ELSE {""} :
                    resp' = get_trial_detail([query |-> nct_id, page |-> 0,
                                              page_size |-> 0, use_ai |-> FALSE],
                                             es, got)
        /\ last' = Call("get_trial_detail", nct_id, Len(cache), None, "none", FALSE)
        /\ UNCHANGED <<tasks, client, es, cache, now>>

\* GET /filters
Filters ==
    /\ \E index \in IF es THEN ApiIndexOutcomes ELSE {NoIndexCall} :
           resp' = get_filters(es, index)
    /\ last' = Call("get_filters", <<>>, Len(cache), None, "none", FALSE)
    /\ UNCHANGED <<tasks, client, es, cache, now>>

\* the four operations of the router
NextApi == SearchPaged \/ Similar \/ Detail \/ Filters

SpecApi == Init /\ [][NextApi]_vars

(***************************************************************************)
(* The query builders on their own: the entities are those a validated     *)
(* ExtractedEntities object can hold, with the query text of the request   *)
(* as original_query                                                       *)
(***************************************************************************)
\* texts for the optional str fields; a phase may be the empty text
PhaseTexts == {<<>>, <<"P", "H", "A", "S", "E", "2">>}

StatusTexts == {<<"R", "E", "C", "R", "U", "I", "T", "I", "N", "G">>}

StudyTypeTexts == {<<"I", "N", "T">>}

\* an Optional[List[str]] field: None, [] or a list
ConditionLists == {None, Some(<<>>), Some(<<<<"b", "c">>>>)}

InterventionLists == {None, Some(<<<<"p", "e">>>>)}

SponsorLists == {None, Some(<<<<"P", "f">>>>)}

LocationLists == {None, Some(<<<<"B">>, <<"N", "Y">>>>)}

KeywordLists == {None, Some(<<<<"i", "m">>>>)}

\* None or one of the texts
OptionalText(texts) == {None} \cup {Some(t) : t \in texts}

\* the size and the offset asked of a builder
BuildSizes == {20}

BuildOffsets == {40}

\* search_trials, confidence >= 0.8: the index client is there, and so is
\* the extractor client the entities came from
BuildIntelligent ==
    /\ es /\ client
    /\ \E phase \in OptionalText(PhaseTexts), status \in OptionalText(StatusTexts),
       study_type \in OptionalText(StudyTypeTexts),
       conditions \in ConditionLists, interventions \in InterventionLists,
       sponsors \in SponsorLists, locations \in LocationLists,
       keywords \in KeywordLists, size \in BuildSizes, from_ \in BuildOffsets :
        LET entities ==
                Entities(EntityFields(phase, conditions, interventions, status,
                                      study_type, sponsors, locations, keywords),
                         <<"c">>, Some(95000))
        IN  /\ resp' = [NoResp EXCEPT
                           !.es_query = build_intelligent_query(entities, size, from_)]
            /\ last' = Call("build_intelligent_query", <<"c">>, Len(cache),
                            Some(entities), "none", FALSE)
            /\ UNCHANGED <<tasks, client, es, cache, now>>

\* search_trials, confidence < 0.8
BuildHybrid ==
    /\ es /\ client
    /\ \E phase \in OptionalText(PhaseTexts), status \in OptionalText(StatusTexts),
       study_type \in OptionalText(StudyTypeTexts),
       conditions \in ConditionLists \ {Some(<<>>)},
       interventions \in InterventionLists,
       sponsors \in SponsorLists, locations \in LocationLists,
       keywords \in KeywordLists, size \in BuildSizes, from_ \in BuildOffsets :
        LET entities ==
                Entities(EntityFields(phase, conditions, interventions, status,
                                      study_type, sponsors, locations, keywords),
                         <<"c">>, Some(50000))
        IN  /\ resp' = [NoResp EXCEPT
                           !.es_query = build_hybrid_query(<<"c">>, Some(entities),
                                                           size, from_)]
            /\ last' = Call("build_hybrid_query", <<"c">>, Len(cache),
                            Some(entities), "none", FALSE)
            /\ UNCHANGED <<tasks, client, es, cache, now>>

\* search_trials, no entities
BuildBasic ==
    /\ es
    /\ \E query \in SearchQueries, size \in BuildSizes, from_ \in BuildOffsets :
        \E request \in {SearchRequest(query, 1, size, FALSE)} :
            /\ request # None
            /\ resp' = [NoResp EXCEPT
                           !.es_query = build_basic_query(request[1].query, size, from_)]
            /\ last' = Call("build_basic_query", request[1].query, Len(cache),
                            None, "none", FALSE)
            /\ UNCHANGED <<tasks, client, es, cache, now>>

\* find_similar_trials
BuildSimilar ==
    /\ es
    /\ \E nct_id \in NctIds, size \in BuildSizes, from_ \in BuildOffsets :
        /\ nct_id_pattern(nct_id)
        /\ resp' = [NoResp EXCEPT
                       !.es_query = build_similar_trials_query(nct_id, size, from_)]
        /\ last' = Call("build_similar_trials_query", nct_id, Len(cache),
                        None, "none", FALSE)
        /\ UNCHANGED <<tasks, client, es, cache, now>>

NextQuery == BuildIntelligent \/ BuildHybrid \/ BuildBasic \/ BuildSimilar

SpecQuery == Init /\ [][NextQuery]_vars

(***************************************************************************)
(* The validators of ExtractedEntities on their own: the enum-like fields  *)
(* of the JSON object the extractor returns                                *)
(***************************************************************************)
PhaseInputs ==
    {<<"P", "H", "A", "S", "E", "2">>,
     <<"P", "h", "a", "s", "e", " ", "2">>,
     <<"p", "h", "a", "s", "e", "-", "2">>,
     <<"p", "h", "a", "s", "e", " ", "1", "/", "p", "h", "a", "s", "e", " ", "2">>,
     <<"P", "h", "a", "s", "e", " ", "I", "I">>, <<"n", "a">>, <<>>}

StatusInputs ==
    {<<"R", "E", "C", "R", "U", "I", "T", "I", "N", "G">>,
     <<"r", "e", "c", "r", "u", "i", "t", "i", "n", "g">>,
     <<"N", "o", "t", " ", "y", "e", "t", " ", "r", "e", "c", "r", "u", "i", "t", "i", "n", "g">>,
     <<"n", "o", "t", "-", "y", "e", "t", "-", "r", "e", "c", "r", "u", "i", "t", "i", "n", "g">>,
     <<"d", "o", "n", "e">>}

StudyTypeInputs ==
    {<<"I", "N", "T", "E", "R", "V", "E", "N", "T", "I", "O", "N", "A", "L">>,
     <<"i", "n", "t", "e", "r", "v", "e", "n", "t", "i", "o", "n", "a", "l">>,
     <<"O", "b", "s", "e", "r", "v", "a", "t", "i", "o", "n", "a", "l">>,
     <<"o", "t", "h", "e", "r">>}

\* ExtractedEntities(**entities_dict): resp holds the object as the extractor
\* wrote it, last the object as it is validated
Validate ==
    \E phase \in OptionalText(PhaseInputs), status \in OptionalText(StatusInputs),
       study_type \in OptionalText(StudyTypeInputs) :
        LET f == EntityFields(phase, None, None, status, study_type, None, None, None)
        IN  /\ resp' = [NoResp EXCEPT
                           !.extracted_entities = Some(Entities(f, <<"c">>, Some(90000)))]
            /\ last' = Call("ExtractedEntities", <<"c">>, Len(cache),
                            ExtractedEntitiesOf(f, <<"c">>, Some(90000)), "none", FALSE)
            /\ UNCHANGED <<tasks, client, es, cache, now>>

NextValidate == Validate

SpecValidate == Init /\ [][NextValidate]_vars

TypeOK ==
    /\ client \in BOOLEAN
    /\ es \in BOOLEAN
    /\ now \in 0..MaxClock
    /\ \A i \in 1..Len(cache) : cache[i].timestamp \in 0..now

(***************************************************************************)
(* Properties of the entity cache                                          *)
(***************************************************************************)
KeySeq(c) == [i \in 1..Len(c) |-> c[i].key]

Entries(c) == {c[i] : i \in 1..Len(c)}

EntryOf(c, k) == c[CacheIndex(c, k)]

\* C1: a put on a cache that holds cache_max_size entries removes exactly one
\* entry before it stores the new one, and that entry is the first of the
\* dict order, the key inserted earliest among those stored (a key written
\* again while stored keeps the place of its insertion); every other entry
\* stays as it was and where it was, and the key put is stored with the
\* entities given, after all others when it was not among them.  A get that
\* hits leaves the cache, and so the eviction order, as it was.
C1_PutAtCapacity ==
    (last'.op = "put" /\ Len(cache) >= cache_max_size) =>
        LET k == get_cache_key(last'.query)
            rest == Tail(cache)
            others(c) == SelectSeq(c, LAMBDA e : e.key # k)
        IN  /\ Len(cache') = Len(rest) + (IF k \in CacheKeys(rest) THEN 0 ELSE 1)
            /\ others(cache') = others(rest)
            /\ cache[1].key # k => cache[1].key \notin CacheKeys(cache')
            /\ KeySeq(cache') = IF k \in CacheKeys(rest)
                                THEN KeySeq(rest)
                                ELSE Append(KeySeq(rest), k)
            /\ EntryOf(cache', k).entities = last'.result[1]
            /\ EntryOf(cache', k).timestamp = now

C1_GetHitKeepsOrder ==
    (last'.op = "get" /\ last'.result # None) => cache' = cache

C1_FifoEviction == [][C1_PutAtCapacity /\ C1_GetHitKeepsOrder]_vars

\* a put of a key that was not stored has just been made on a full cache
C1_Witness ==
    /\ last.op = "put"
    /\ last.size_before = cache_max_size
    /\ Len(cache) = cache_max_size
    /\ cache[Len(cache)].key = get_cache_key(last.query)

\* C2: the cache never holds more than cache_max_size entries
C2_SizeCapped == Len(cache) <= cache_max_size

\* an extract call has stored an entry in a cache that was full
C2_Witness ==
    /\ last.op = "extract"
    /\ last.api = "ok"
    /\ last.size_before = cache_max_size
    /\ Len(cache) = cache_max_size

\* C3: a get for an entry younger than 600 seconds returns the stored
\* entities; a get for an entry of 600 seconds or more returns None and
\* removes that entry and no other; a put for the key that follows such a get
\* stores a new last entry with the clock's value as timestamp
C3_Get ==
    (last'.op = "get" /\ get_cache_key(last'.query) \in CacheKeys(cache)) =>
        LET k == get_cache_key(last'.query)
            e == EntryOf(cache, k)
        IN  /\ now - e.timestamp < 600 =>
                /\ last'.result = Some(e.entities)
                /\ cache' = cache
            /\ now - e.timestamp >= 600 =>
                /\ last'.result = None
                /\ k \notin CacheKeys(cache')
                /\ cache' = SelectSeq(cache, LAMBDA x : x.key # k)

C3_PutAfterMiss ==
    (/\ last.op = "get"
     /\ last.result = None
     /\ last'.op = "put"
     /\ get_cache_key(last'.query) = get_cache_key(last.query)) =>
        LET k == get_cache_key(last'.query)
        IN  /\ k \notin CacheKeys(cache)
            /\ k \in CacheKeys(cache')
            /\ cache'[Len(cache')] =
                   [key |-> k, entities |-> last'.result[1], timestamp |-> now]

C3_TtlExpiry == [][C3_Get /\ C3_PutAfterMiss]_vars

\* a get has just found an entry expired and removed it
C3_Witness ==
    /\ last.op = "get"
    /\ last.result = None
    /\ Len(cache) < last.size_before
    /\ get_cache_key(last.query) \notin CacheKeys(cache)

\* Two texts differ only in letter case and in leading or trailing
\* whitespace: each is some spaces, a core, some spaces, and the cores agree
\* letter by letter up to case.
CasePairs == {{"c", "C"}, {"d", "D"}}

SameLetter(a, b) == a = b \/ {a, b} \in CasePairs

IsPadded(q, i, j) ==
    /\ \A n \in 1..Len(q) : (n < i \/ n > j) => q[n] = " "

DifferOnlyInCaseAndPadding(q1, q2) ==
    \E i1 \in 1..Len(q1) + 1, i2 \in 1..Len(q2) + 1 :
        \E n \in 0..Len(q1) :
            /\ i1 + n - 1 <= Len(q1)
            /\ i2 + n - 1 <= Len(q2)
            /\ IsPadded(q1, i1, i1 + n - 1)
            /\ IsPadded(q2, i2, i2 + n - 1)
            /\ \A m \in 0..n - 1 : SameLetter(q1[i1 + m], q2[i2 + m])

\* C4: texts that differ only in case and surrounding whitespace have the
\* same cache key: what is put under one is found by a get under the other,
\* and two such texts never occupy two entries
C4_CaseInsensitiveKey ==
    /\ \A q1, q2 \in CacheQueries :
           DifferOnlyInCaseAndPadding(q1, q2) => get_cache_key(q1) = get_cache_key(q2)
    /\ last.op = "put" =>
           \A q \in CacheQueries :
               DifferOnlyInCaseAndPadding(q, last.query) =>
                   get_from_cache(cache, q, now).result = last.result
    /\ \A i, j \in 1..Len(cache) :
           (i # j) => ~DifferOnlyInCaseAndPadding(cache[i].entities.original_query,
                                                  cache[j].entities.original_query)

\* a get has hit an entry that was stored under another spelling of the text
C4_Witness ==
    /\ last.op = "get"
    /\ last.result # None
    /\ last.result[1].original_query # last.query
    /\ Len(last.result[1].original_query) # Len(last.query)

(***************************************************************************)
(* Properties of extract_entities                                          *)
(***************************************************************************)
ApiFailures ==
    Raises \cup {"JSONDecodeError", "Exception"}

\* C5: extract for a query whose key has an unexpired entry returns the
\* entities of that entry, without a call to the external extractor, and
\* leaves the cache as it was
C5_Step ==
    (/\ last'.op = "extract"
     /\ get_cache_key(last'.query) \in CacheKeys(cache)
     /\ now - EntryOf(cache, get_cache_key(last'.query)).timestamp < cache_ttl) =>
        /\ last'.result = Some(EntryOf(cache, get_cache_key(last'.query)).entities)
        /\ last'.api = "none"
        /\ cache' = cache
        /\ now' = now

C5_HitSkipsExtractor == [][C5_Step]_vars

\* extract has just returned entities from the cache
C5_Witness ==
    /\ last.op = "extract"
    /\ last.api = "none"
    /\ last.result # None
    /\ last.cache_read

\* C6: when the external extractor call fails, extract returns None and
\* stores nothing; an entry is written only by a call that built a valid
\* ExtractedEntities, and it holds that object
C6_Step ==
    last'.op = "extract" =>
        /\ last'.api \in ApiFailures =>
               /\ last'.result = None
               /\ Entries(cache') \subseteq Entries(cache)
        /\ \A e \in Entries(cache') \ Entries(cache) :
               /\ last'.api = "ok"
               /\ last'.result = Some(e.entities)
               /\ e.key = get_cache_key(last'.query)
               /\ ValidConfidence(e.entities.confidence)
               /\ e.entities.original_query = last'.query

C6_FailureStoresNothing == [][C6_Step]_vars

\* extract has just failed on a reply that did not validate, with entries
\* in the cache
C6_Witness ==
    /\ last.op = "extract"
    /\ last.api = "Exception"
    /\ last.result = None
    /\ Len(cache) > 0

\* C7: a client created without credentials is not available, and every
\* extract call on it returns None without a call to the external extractor
\* and without reading or writing the cache
C7_NoCredentials ==
    \A api_key \in ApiKeys :
        (api_key = None \/ api_key[1] = <<>>) => ~is_available(init_client(api_key))

C7_Step ==
    (last'.op = "extract" /\ ~client) =>
        /\ C7_NoCredentials
        /\ ~is_available(client)
        /\ last'.result = None
        /\ last'.api = "none"
        /\ ~last'.cache_read
        /\ cache' = cache

C7_UnconfiguredClient == [][C7_Step]_vars

\* extract has just been called on a client without credentials, for a
\* query that has an entry in the cache
C7_Witness ==
    /\ last.op = "extract"
    /\ ~client
    /\ get_cache_key(last.query) \in CacheKeys(cache)

(***************************************************************************)
(* Properties of search_trials                                             *)
(***************************************************************************)
\* the strategy the extraction outcome calls for
StrategyFor(extracted_entities) ==
    IF extracted_entities = None THEN "basic"
    ELSE IF extracted_entities[1].confidence # None
            /\ extracted_entities[1].confidence[1] >= 80000
         THEN "intelligent"
         ELSE "hybrid"

\* C8: the strategy is a total function of the extraction outcome: every
\* request that passes validation and the check of the index client compiles
\* exactly the query its outcome calls for, basic without entities,
\* intelligent with a confidence of 0.8 or more, hybrid with a lower
\* confidence or none, and a response names that strategy
C8_StrategySelection ==
    last.op = "search" =>
        /\ (es /\ resp.status # 422) => resp.es_query # NoQuery
        /\ resp.es_query # NoQuery =>
               /\ resp.es_query.kind = StrategyFor(last.result)
               /\ resp.es_query.kind \in {"basic", "intelligent", "hybrid"}
        /\ resp.status = 200 =>
               /\ resp.extracted_entities = last.result
               /\ resp.search_type = StrategyFor(resp.extracted_entities)

\* a response of the intelligent strategy for entities of confidence 0.8
C8_Witness ==
    /\ last.op = "search"
    /\ resp.status = 200
    /\ resp.search_type = "intelligent"
    /\ resp.extracted_entities # None
    /\ resp.extracted_entities[1].confidence = Some(80000)

\* C9: a request with use_ai = false neither reads nor changes the cache nor
\* calls the extractor, whatever the cache holds; the only query it compiles
\* is the basic one, which it compiles whenever the index client is there,
\* and its response has search_type basic, used_ai false and no entities
C9_Step ==
    (last'.op = "search" /\ resp'.status # 422 /\ ~resp'.use_ai) =>
        /\ cache' = cache
        /\ ~last'.cache_read
        /\ last'.api = "none"
        /\ last'.result = None
        /\ es => resp'.es_query.kind = "basic"
        /\ ~es => resp'.es_query = NoQuery /\ resp'.status = 503
        /\ resp'.status = 200 =>
               /\ resp'.search_type = "basic"
               /\ ~resp'.used_ai
               /\ resp'.extracted_entities = None

C9_NoAiIsBasic == [][C9_Step]_vars

\* a basic response to a request with use_ai = false for a query that has an
\* unexpired entry of high confidence in the cache
C9_Witness ==
    /\ last.op = "search"
    /\ resp.status = 200
    /\ ~resp.use_ai
    /\ resp.search_type = "basic"
    /\ client
    /\ \E i \in 1..Len(cache) :
           /\ cache[i].key = get_cache_key(resp.query)
           /\ now - cache[i].timestamp < cache_ttl
           /\ cache[i].entities.confidence = Some(80000)

\* the outcome the index call alone gives a request
IndexStatus(index) ==
    CASE index.kind = "RequestError" -> 400
      [] index.kind = "ConnectionError" -> 503
      [] index.kind = "ok" /\ (\A i \in 1..Len(index.hits) : index.hits[i] # Field(None)) -> 200
      [] OTHER -> 500

\* C10: a request whose extractor call fails goes on without entities: it
\* compiles the basic query with the requested size and offset, submits it,
\* and ends as the index call decides, a response being the basic one
C10_Step ==
    (last'.op = "search" /\ last'.api \in ApiFailures) =>
        /\ last'.result = None
        /\ resp'.es_query.kind = "basic"
        /\ resp'.es_query.size = resp'.page_size
        /\ resp'.es_query.from_ = (resp'.page - 1) * resp'.page_size
        /\ resp'.es_query.clause[1].query = resp'.query
        /\ resp'.index \in IndexOutcomes
        /\ resp'.status = IndexStatus(resp'.index)
        /\ resp'.status = 200 =>
               /\ resp'.search_type = "basic"
               /\ ~resp'.used_ai
               /\ resp'.extracted_entities = None
               /\ Len(resp'.results) = Len(resp'.index.hits)

C10_ExtractorFailureDegrades == [][C10_Step]_vars

\* a basic response to a request whose extractor call hit the rate limit
C10_Witness ==
    /\ last.op = "search"
    /\ last.api = "RateLimitError"
    /\ resp.use_ai
    /\ resp.status = 200
    /\ resp.search_type = "basic"

(***************************************************************************)
(* Properties of the failures of search                                    *)
(***************************************************************************)
\* C11: a search request that arrives while the index client is not
\* connected ends with 503, and in it the cache is neither read nor written,
\* the extractor is not called, no query is compiled and none is submitted
C11_Step ==
    (last'.op = "search" /\ ~es /\ resp'.status # 422) =>
        /\ resp'.status = 503
        /\ ~last'.cache_read
        /\ cache' = cache
        /\ last'.api = "none"
        /\ last'.result = None
        /\ resp'.es_query = NoQuery
        /\ resp'.index = NoIndexCall

C11_UnavailableFirst == [][C11_Step]_vars

\* a request that asks for extraction, with an extractor client at hand, has
\* ended with 503 because the index client is not connected
C11_Witness ==
    /\ last.op = "search"
    /\ ~es
    /\ client
    /\ resp.use_ai
    /\ resp.status = 503

\* C12: when the submission of the query fails, the request ends with 400
\* for a malformed-query error, with 503 for a connectivity error and with
\* 500 for every other error, and with no other status
C12_Step ==
    (last'.op = "search" /\ resp'.index # NoIndexCall /\ resp'.index.kind # "ok") =>
        /\ resp'.index.kind = "RequestError" => resp'.status = 400
        /\ resp'.index.kind = "ConnectionError" => resp'.status = 503
        /\ resp'.index.kind \notin {"RequestError", "ConnectionError"} =>
               resp'.status = 500

C12_IndexFailureMapping == [][C12_Step]_vars

\* a request has ended with 400 because the index refused the query
C12_Witness ==
    /\ last.op = "search"
    /\ resp.index.kind = "RequestError"
    /\ resp.es_query # NoQuery
    /\ resp.status = 400

(***************************************************************************)
(* Properties of the operations of the router                              *)
(***************************************************************************)
\* the index call that failed in the last operation: "" when none did
FailedCall(r) ==
    IF r.get \notin {"", "ok"} THEN "get"
    ELSE IF r.index.kind \notin {"", "ok"} THEN "search"
    ELSE ""

FailureKind(r) == IF FailedCall(r) = "get" THEN r.get ELSE r.index.kind

\* C13: in search, get_trial_detail, get_filters and find_similar_trials a
\* failed index call ends the request with 400 when the index refused the
\* query, with 503 when it could not be reached, with 404 when the record
\* looked up is missing and with 500 in every other case
C13_SameTaxonomy ==
    (last.op \in {"search", "get_trial_detail", "get_filters", "find_similar"}
     /\ FailedCall(resp) # "") =>
        resp.status =
            CASE FailureKind(resp) = "RequestError" -> 400
              [] FailureKind(resp) = "ConnectionError" -> 503
              [] FailureKind(resp) = "NotFoundError" /\ FailedCall(resp) = "get" -> 404
              [] OTHER -> 500

\* C14: a find_similar_trials request whose reference record the index does
\* not hold ends with 404, without a similarity query compiled or submitted
C14_Step ==
    (last'.op = "find_similar" /\ resp'.get = "NotFoundError") =>
        /\ resp'.status = 404
        /\ resp'.es_query = NoQuery
        /\ resp'.index = NoIndexCall

C14_MissingReference == [][C14_Step]_vars

\* a find_similar_trials request has ended with 404 for a well-formed id
C14_Witness ==
    /\ last.op = "find_similar"
    /\ nct_id_pattern(last.query)
    /\ resp.get = "NotFoundError"
    /\ resp.status = 404

\* C15: find_similar_trials leaves the entity cache as it is, does not read
\* it and does not call the extractor; its response reports search_type
\* "similar", used_ai false and no extracted entities
C15_Step ==
    last'.op = "find_similar" =>
        /\ cache' = cache
        /\ ~last'.cache_read
        /\ last'.api = "none"
        /\ resp'.status = 200 =>
               /\ resp'.search_type = "similar"
               /\ ~resp'.used_ai
               /\ resp'.extracted_entities = None

C15_SimilarIsNotAi == [][C15_Step]_vars

\* a find_similar_trials response with hits, made while an extractor client
\* is at hand and the cache holds an entry
C15_Witness ==
    /\ last.op = "find_similar"
    /\ resp.status = 200
    /\ Len(resp.results) > 0
    /\ client
    /\ Len(cache) > 0

\* the pagination of an answer: the query submitted asks for page_size
\* records from (page - 1) * page_size on, and a response counts the pages
Paginated(r) ==
    /\ r.es_query # NoQuery
    /\ r.es_query.size = r.page_size
    /\ r.es_query.from_ = (r.page - 1) * r.page_size
    /\ r.status = 200 =>
           /\ r.index.total = 0 => r.total_pages = 0
           /\ r.index.total > 0 =>
                  /\ (r.total_pages - 1) * r.page_size < r.index.total
                  /\ r.index.total <= r.total_pages * r.page_size

\* the request is acceptable but for its page size and no index call failed
PagedRequest(op) ==
    /\ last.op = op
    /\ es
    /\ op = "find_similar" => nct_id_pattern(last.query)
    /\ resp.page >= 1
    /\ resp.get \in {"", "ok"}

\* C16 as stated: with page >= 1 and page_size in 1..100 both search and
\* find_similar_trials submit a query with from = (page - 1) * page_size and
\* size = page_size and report total_pages = ceil(total / page_size)
C16_AsStated ==
    \A op \in {"search", "find_similar"} :
        (PagedRequest(op) /\ resp.page_size \in 1..PageSizeMax) => Paginated(resp)

\* C16: with page >= 1 and page_size in 1..100 for search, in 1..20 for
\* find_similar_trials, the query submitted has from = (page - 1) * page_size
\* and size = page_size, and a response reports total_pages =
\* ceil(total / page_size): 0 when total is 0, and otherwise
\* (total_pages - 1) * page_size < total <= total_pages * page_size;
\* find_similar_trials with a page_size above 20 is rejected with no query
C16_Pagination ==
    /\ (PagedRequest("search") /\ resp.page_size \in 1..PageSizeMax) =>
           Paginated(resp)
    /\ (PagedRequest("find_similar") /\ resp.page_size \in 1..SimilarPageSizeMax) =>
           Paginated(resp)
    /\ (PagedRequest("find_similar") /\ resp.page_size > SimilarPageSizeMax) =>
           /\ resp.status = 422
           /\ resp.es_query = NoQuery

\* page 3 of 20 records each, of 45 found by find_similar_trials: the query
\* starts at 40 and the response counts 3 pages
C16_Witness ==
    /\ last.op = "find_similar"
    /\ resp.status = 200
    /\ resp.page = 3
    /\ resp.page_size = 20
    /\ resp.index.total = 45
    /\ resp.es_query.from_ = 40
    /\ resp.total_pages = 3

(***************************************************************************)
(* Properties of the queries built                                         *)
(***************************************************************************)
\* the field of the index an entity field is filtered on
FilterFields == <<"phase", "overall_status", "study_type">>

EntityFilterValue(e, field) ==
    CASE field = "phase" -> e.phase
      [] field = "overall_status" -> e.status
      [] field = "study_type" -> e.study_type

\* the filter clauses are term clauses, one on each of the three fields
\* whose entity field counts as present, holding its value, and no other
FiltersMatch(e, q, present(_)) ==
    /\ \A i \in 1..Len(q.filter) :
           /\ q.filter[i].type = "term"
           /\ q.filter[i].nested = ""
           /\ \E n \in 1..3 : q.filter[i].fields = <<FilterFields[n]>>
    /\ \A n \in 1..3 :
           LET on == {i \in 1..Len(q.filter) : q.filter[i].fields = <<FilterFields[n]>>}
               v == EntityFilterValue(e, FilterFields[n])
           IN  IF present(v)
               THEN /\ Cardinality(on) = 1
                    /\ \A i \in on : q.filter[i].query = v[1]
               ELSE on = {}

IsGiven(v) == v # None

IsGivenText(v) == v # None /\ v[1] # <<>>

\* C17 as stated: the intelligent query has exactly one term filter for each
\* of phase, status and study_type that the entities hold, and no other
C17_AsStated ==
    last.op = "build_intelligent_query" =>
        FiltersMatch(last.result[1], resp.es_query, IsGiven)

\* C17: the intelligent query has exactly one term filter for each of phase,
\* status and study_type that the entities hold as a non-empty text, on the
\* fields phase, overall_status and study_type, with that text as value, and
\* no other filter clause: a field that is None or the empty text, and the
\* conditions, interventions, sponsors, locations and keywords, yield none
C17_Filters ==
    last.op = "build_intelligent_query" =>
        /\ FiltersMatch(last.result[1], resp.es_query, IsGivenText)
        /\ Len(resp.es_query.filter) <= 3

\* an intelligent query for PHASE2 and one condition, no status and no study
\* type: one filter, on phase, and scored clauses for the condition
C17_Witness ==
    /\ last.op = "build_intelligent_query"
    /\ last.result[1].phase = Some(<<"P", "H", "A", "S", "E", "2">>)
    /\ last.result[1].status = None
    /\ last.result[1].study_type = None
    /\ last.result[1].conditions = Some(<<<<"b", "c">>>>)
    /\ Len(resp.es_query.filter) = 1
    /\ resp.es_query.filter[1].fields = <<"phase">>
    /\ Len(resp.es_query.should) >= 2

\* C18: the intelligent query sets minimum_should_match, to 1, exactly when
\* it has no filter clause; with a filter clause the should clauses are
\* there and minimum_should_match is not set
C18_MinimumShouldMatch ==
    last.op = "build_intelligent_query" =>
        LET q == resp.es_query
        IN  /\ q.minimum_should_match = Some(1) <=> q.filter = <<>>
            /\ q.minimum_should_match \in {None, Some(1)}
            /\ q.filter # <<>> =>
                   /\ q.should # <<>>
                   /\ q.minimum_should_match = None

\* an intelligent query with a status filter whose only should clause is the
\* fallback on the original query
C18_Witness ==
    /\ last.op = "build_intelligent_query"
    /\ Len(resp.es_query.filter) = 1
    /\ Len(resp.es_query.should) = 1
    /\ resp.es_query.should[1].query = last.result[1].original_query
    /\ resp.es_query.minimum_should_match = None

\* no filter and no must clause, should clauses only
OnlyShould(q) ==
    /\ q.filter = <<>>
    /\ q.must = <<>>
    /\ q.clause = <<>>
    /\ q.should # <<>>
    /\ \A i \in 1..Len(q.should) : q.should[i].type # "term"

\* C19 as stated: the hybrid and the basic query have no filter clause, are
\* made of should clauses only and set minimum_should_match to 1
C19_AsStated ==
    last.op \in {"build_hybrid_query", "build_basic_query"} =>
        /\ OnlyShould(resp.es_query)
        /\ resp.es_query.minimum_should_match = Some(1)

\* C19: the hybrid query is a bool query of should clauses only, with
\* minimum_should_match 1 and no filter, whatever phase, status and
\* study_type the entities hold; the basic query is one fuzzy multi_match
\* on the query text, with no bool query around it: no filter, no should
\* list and no minimum_should_match
C19_NoFilters ==
    /\ last.op = "build_hybrid_query" =>
           /\ resp.es_query.query = "bool"
           /\ OnlyShould(resp.es_query)
           /\ resp.es_query.minimum_should_match = Some(1)
    /\ last.op = "build_basic_query" =>
           LET q == resp.es_query
           IN  /\ q.query = "multi_match"
               /\ Len(q.clause) = 1
               /\ q.clause[1].type = "multi_match"
               /\ q.clause[1].query = last.query
               /\ q.clause[1].fuzziness = Some("AUTO")
               /\ q.filter = <<>> /\ q.must = <<>> /\ q.should = <<>>
               /\ q.minimum_should_match = None

\* a hybrid query for entities that hold a phase, a status and a study type
C19_Witness ==
    /\ last.op = "build_hybrid_query"
    /\ IsGivenText(last.result[1].phase)
    /\ IsGivenText(last.result[1].status)
    /\ IsGivenText(last.result[1].study_type)
    /\ resp.es_query.filter = <<>>
    /\ resp.es_query.minimum_should_match = Some(1)

\* C20: the intelligent, basic, hybrid and similarity queries exclude
\* detailed_description from _source and set track_scores
C20_ProjectionAndScores ==
    last.op \in {"build_intelligent_query", "build_basic_query",
                 "build_hybrid_query", "build_similar_trials_query"} =>
        /\ \E i \in 1..Len(resp.es_query.excludes) :
               resp.es_query.excludes[i] = "detailed_description"
        /\ resp.es_query.track_scores = Some(TRUE)

(***************************************************************************)
(* Properties of concurrent search requests                                *)
(***************************************************************************)
\* the tasks whose request is in progress
InProgress == {r \in Tasks : tasks[r].pc # "idle"}

\* an entry holds a key, a validated ExtractedEntities object and the time
\* it was stored
CompleteEntry(e) ==
    /\ DOMAIN e = {"key", "entities", "timestamp"}
    /\ DOMAIN e.entities = DOMAIN Entities(NoFields, <<>>, None)
    /\ ValidConfidence(e.entities.confidence)
    /\ e.entities.original_query # <<>>
    /\ e.timestamp \in 0..now

C21_Consistent ==
    /\ Len(cache) <= cache_max_size
    /\ \A i, j \in 1..Len(cache) : cache[i].key = cache[j].key => i = j
    /\ \A i \in 1..Len(cache) : CompleteEntry(cache[i])

\* a step removes at most one key; the step that stores an entry removes a
\* key only from a full cache, and then the oldest one
C21_Step ==
    /\ Cardinality(CacheKeys(cache) \ CacheKeys(cache')) <= 1
    /\ (last'.op = "extractor_returned" /\ last'.api = "ok") =>
           /\ get_cache_key(last'.query) \in CacheKeys(cache')
           /\ CacheKeys(cache) \ CacheKeys(cache') # {} =>
                  /\ Len(cache) >= cache_max_size
                  /\ CacheKeys(cache) \ CacheKeys(cache') = {oldest_key(cache)}

\* C21: under every interleaving of concurrent search requests the shared
\* cache stays consistent: it never holds more than cache_max_size entries,
\* one put removes at most one entry by eviction, and every stored key has
\* exactly one entry, which is a complete (entities, timestamp) pair
C21_CacheConsistent == [](C21_Consistent) /\ [][C21_Step]_vars

\* a request has stored its entities in a full cache while the request of
\* another task is in progress
C21_Witness ==
    /\ last.op = "extractor_returned"
    /\ last.api = "ok"
    /\ last.size_before = cache_max_size
    /\ Len(cache) = cache_max_size
    /\ Cardinality(InProgress) = 2

\* the coroutine of r takes its next step
Step(r) == Begin(r) \/ ExtractorReturns(r) \/ IndexReturns(r)

\* C22: while one search request waits for the extractor call to return,
\* every other request can take its next step: a new one can begin, one that
\* awaits the index can receive its response
C22_ExtractorCallSuspends ==
    \A r \in Tasks :
        tasks[r].pc = "extractor" => \A q \in Tasks \ {r} : ENABLED Step(q)

\* query.lower().strip(), the text the key is the digest of
Normalized(query) == strip(lower(query))

\* the cache holds entities extracted for the normalized text that have not
\* expired at time t
CachedFor(c, query, t) ==
    \E i \in 1..Len(c) :
        /\ Normalized(c[i].entities.original_query) = Normalized(query)
        /\ t - c[i].timestamp < 600

\* the tasks that stand in the extractor call for the normalized text
Extracting(ts, query) ==
    {r \in Tasks : /\ ts[r].pc = "extractor"
                    /\ Normalized(ts[r].request[1].query) = Normalized(query)}

\* the step that calls the extractor for a query finds no unexpired entry for
\* its normalized text and no call for it in progress
C23_Step ==
    \A r \in Tasks :
        (tasks[r].pc # "extractor" /\ tasks'[r].pc = "extractor") =>
            LET query == tasks'[r].request[1].query
            IN  /\ ~CachedFor(cache, query, now)
                /\ Extracting(tasks, query) = {}

\* C23: once the entities of a query are cached, the extractor is not called
\* for a query of the same normalized text before that entry is 600 seconds
\* old or evicted, also when several requests for it are in progress at
\* once: a call is made only when no unexpired entry is stored and no call
\* for the text is in progress
C23_OneExtractionPerWindow == [][C23_Step]_vars

\* a request finds the entities another text of the same key has stored,
\* while another request is in progress
C23_Witness ==
    /\ last.op = "begin"
    /\ last.result # None
    /\ last.api = "none"
    /\ last.result[1].original_query # last.query
    /\ Normalized(last.result[1].original_query) = Normalized(last.query)
    /\ Cardinality(InProgress) = 2

(***************************************************************************)
(* Properties of the search response                                       *)
(***************************************************************************)
\* the query the named compiler operation makes for the request answered
CompiledBy(name, r) ==
    LET from_ == (r.page - 1) * r.page_size
    IN  CASE name = "intelligent" ->
                 build_intelligent_query(r.extracted_entities[1], r.page_size, from_)
          [] name = "hybrid" ->
                 build_hybrid_query(r.query, r.extracted_entities, r.page_size, from_)
          [] name = "basic" -> build_basic_query(r.query, r.page_size, from_)
          [] OTHER -> NoQuery

\* C24: the search_type of a successful search response names the compiler
\* operation whose query was submitted to the index (intelligent, hybrid or
\* basic), and used_ai is true exactly when entities were obtained, which is
\* exactly when search_type is not basic
C24_SearchTypeIsExecuted ==
    (last.op = "search" /\ resp.status = 200) =>
        /\ resp.search_type \in {"intelligent", "hybrid", "basic"}
        /\ resp.search_type = resp.es_query.kind
        /\ resp.es_query = CompiledBy(resp.search_type, resp)
        /\ resp.extracted_entities = last.result
        /\ resp.used_ai <=> last.result # None
        /\ resp.used_ai <=> resp.search_type # "basic"

\* a request that asked for the extractor and got no entities is answered
\* from the basic query
C24_Witness ==
    /\ last.op = "search"
    /\ resp.status = 200
    /\ resp.use_ai
    /\ last.api \notin {"none", "ok"}
    /\ resp.search_type = "basic"
    /\ ~resp.used_ai

(***************************************************************************)
(* Properties of the scored clauses                                        *)
(***************************************************************************)
\* the items of a list field, none when it is absent or empty
ListOf(field) == IF field = None THEN <<>> ELSE field[1]

\* what a scored clause looks at: the nested path, the type of the clause,
\* the fields it matches and the text, which for the city/state/country
\* clause of a location is the text of its inner clauses
Shape(clause) ==
    [nested |-> clause.nested, type |-> clause.type, fields |-> clause.fields,
     query |-> IF clause.type = "bool" THEN clause.should[1].query
               ELSE clause.query]

Shapes(clauses) == [i \in 1..Len(clauses) |-> Shape(clauses[i])]

\* for each item in order, one clause of each of the kinds: a kind is the
\* nested path, the type and the fields
PerItem(items, kinds) ==
    [i \in 1..(Len(items) * Len(kinds)) |->
        LET kind == kinds[((i - 1) % Len(kinds)) + 1]
        IN  [nested |-> kind[1], type |-> kind[2], fields |-> kind[3],
             query |-> items[((i - 1) \div Len(kinds)) + 1]]]

TitleFields == <<"brief_title^2", "official_title^1.5", "brief_summaries_description">>

\* the clauses the claim lists for the entities
ScoredShapes(e) ==
    PerItem(ListOf(e.conditions),
            <<<<"conditions", "match", <<"conditions.name">>>>,
              <<"", "multi_match", TitleFields>>>>)
    \o PerItem(ListOf(e.interventions),
               <<<<"interventions", "match", <<"interventions.name">>>>,
                 <<"interventions", "match", <<"interventions.description">>>>>>)
    \o PerItem(ListOf(e.sponsors),
               <<<<"sponsors", "match", <<"sponsors.name">>>>,
                 <<"", "match", <<"source">>>>>>)
    \o PerItem(ListOf(e.locations), <<<<"facilities", "bool", <<>>>>>>)
    \o PerItem(ListOf(e.keywords),
               <<<<"", "multi_match", Append(TitleFields, "detailed_description")>>>>)

\* the full-text clause over the original query
FullText(original_query) ==
    [nested |-> "", type |-> "multi_match",
     fields |-> <<"brief_title^3", "official_title^2",
                  "brief_summaries_description^1.5", "detailed_description">>,
     query |-> original_query]

\* C25: the scored clauses of the intelligent query are two for each
\* condition, two for each intervention, two for each sponsor, one for each
\* location and one for each keyword, in that order; the full-text clause
\* over the original query is there if and only if these lists gave no
\* clause, and then it is the only one; the list is never empty
C25_ScoredClauses ==
    last.op = "build_intelligent_query" =>
        LET e == last.result[1]
            should == Shapes(resp.es_query.should)
        IN  /\ e.original_query # <<>>
            /\ should # <<>>
            /\ ScoredShapes(e) # <<>> => should = ScoredShapes(e)
            /\ ScoredShapes(e) = <<>> => should = <<FullText(e.original_query)>>
            /\ (\E i \in 1..Len(should) : should[i] = FullText(e.original_query))
                   <=> ScoredShapes(e) = <<>>

\* an intelligent query for entities with a condition, an intervention, a
\* sponsor, two locations and a keyword: nine scored clauses
C25_Witness ==
    /\ last.op = "build_intelligent_query"
    /\ Len(ListOf(last.result[1].conditions)) = 1
    /\ Len(ListOf(last.result[1].interventions)) = 1
    /\ Len(ListOf(last.result[1].sponsors)) = 1
    /\ Len(ListOf(last.result[1].locations)) = 2
    /\ Len(ListOf(last.result[1].keywords)) = 1
    /\ Len(resp.es_query.should) = 9

\* the six clauses over the raw text of the request
FanOutShapes(query_text) ==
    PerItem(<<query_text>>,
            <<<<"", "multi_match",
                <<"brief_title^3", "official_title^2",
                  "brief_summaries_description^1.5", "detailed_description",
                  "keywords">>>>,
              <<"conditions", "match", <<"conditions.name">>>>,
              <<"interventions", "multi_match",
                <<"interventions.name^2", "interventions.description">>>>,
              <<"sponsors", "match", <<"sponsors.name">>>>,
              <<"facilities", "multi_match",
                <<"facilities.city^3", "facilities.state^2.5",
                  "facilities.country^2", "facilities.name">>>>,
              <<"", "match", <<"source">>>>>>)

\* the entities with every field but sponsors and locations left out
SponsorsAndLocations(e) ==
    Entities(EntityFields(None, None, None, None, None, e.sponsors, e.locations,
                          None),
             e.original_query, e.confidence)

\* C26: the hybrid query holds the six fuzzy clauses over the raw text
\* (standard text fields, conditions, interventions, sponsors, facilities,
\* source), then one clause for each extracted sponsor and one for each
\* extracted location; phase, status, study type, conditions, interventions
\* and keywords do not change it
C26_HybridFanOut ==
    last.op = "build_hybrid_query" =>
        LET e == last.result[1]
            q == resp.es_query
            should == Shapes(q.should)
        IN  /\ SubSeq(should, 1, 6) = FanOutShapes(last.query)
            /\ \A i \in 1..6 : q.should[i].fuzziness = Some("AUTO")
            /\ SubSeq(should, 7, Len(should)) =
                   PerItem(ListOf(e.sponsors),
                           <<<<"sponsors", "match", <<"sponsors.name">>>>>>)
                   \o PerItem(ListOf(e.locations), <<<<"facilities", "bool", <<>>>>>>)
            /\ q = build_hybrid_query(last.query, Some(SponsorsAndLocations(e)),
                                      q.size, q.from_)

\* a hybrid query for entities that hold every field: the six clauses, one
\* for the sponsor and two for the locations
C26_Witness ==
    /\ last.op = "build_hybrid_query"
    /\ \A f \in {"phase", "status", "study_type", "conditions", "interventions",
                  "keywords", "sponsors", "locations"} :
           last.result[1][f] # None
    /\ Len(resp.es_query.should) = 9

(***************************************************************************)
(* Properties of hit mapping                                               *)
(***************************************************************************)
\* the records the preprocessor can leave in the index
IndexedTitles == {clean_text_fields(source) : source \in RawTitles}

\* the title is missing: no key, or null
TitleMissing(hit) == hit = NoKey \/ hit = Field(None)

\* C27: when the index returns hits that are records as the preprocessor
\* leaves them, search and find_similar answer with a response and every
\* hit is mapped to a summary with a title: the placeholder when the title
\* is missing (no key, or null as a title that cleans to empty is stored),
\* the stored title otherwise
C27_HitMapping ==
    (/\ last.op \in {"search", "find_similar"}
     /\ resp.index.kind = "ok"
     /\ \A i \in 1..Len(resp.index.hits) : resp.index.hits[i] \in IndexedTitles) =>
        /\ resp.status = 200
        /\ Len(resp.results) = Len(resp.index.hits)
        /\ \A i \in 1..Len(resp.index.hits) :
               resp.results[i] = IF TitleMissing(resp.index.hits[i])
                                 THEN NoTitle
                                 ELSE resp.index.hits[i][1][1]

(***************************************************************************)
(* Properties of the validators                                            *)
(***************************************************************************)
\* the study types of the field description: INTERVENTIONAL, OBSERVATIONAL
valid_study_types ==
    <<<<"I", "N", "T", "E", "R", "V", "E", "N", "T", "I", "O", "N", "A", "L">>,
      <<"O", "B", "S", "E", "R", "V", "A", "T", "I", "O", "N", "A", "L">>>>

AllowedValues(field) ==
    CASE field = "phase" -> valid_phases
      [] field = "status" -> valid_statuses
      [] OTHER -> valid_study_types

\* the case/format normalization of a text: upper case, and the format of
\* the field's values: a phase has no blank and no hyphen, a status has
\* underscores for blanks
CaseFormat(field, v) ==
    CASE field = "phase" -> remove(remove(upper(v), " "), "-")
      [] field = "status" -> replace(upper(v), " ", "_")
      [] OTHER -> upper(v)

\* the value of the field is a member of the allowed list reached by
\* case/format normalization of the input, or the input unchanged when no
\* allowed value matches it
NormalizedOrKept(field, v, r) ==
    IF v = None THEN r = None
    ELSE /\ r # None
         /\ \/ /\ Member(r[1], AllowedValues(field))
               /\ r[1] = CaseFormat(field, v[1])
            \/ /\ r = v
               /\ ~Member(CaseFormat(field, v[1]), AllowedValues(field))

\* C28: the validation of phase, status and study type never rejects a
\* value: the result is a member of the field's allowed list reached by
\* case/format normalization of the input, or the input unchanged when no
\* allowed value matches; validating the result again changes nothing
C28_EnumNormalization ==
    last.op = "ExtractedEntities" =>
        /\ last.result # None
        /\ \A field \in {"phase", "status", "study_type"} :
               NormalizedOrKept(field, resp.extracted_entities[1][field],
                                last.result[1][field])
        /\ ExtractedEntitiesOf(last.result[1], last.result[1].original_query,
                               last.result[1].confidence) = last.result

(***************************************************************************)
(* Properties of the cache as extract_entities fills it                    *)
(***************************************************************************)
\* C29: every stored entry has the key derived from the original_query of
\* the entities it holds, so the entities a cache hit returns carry an
\* original_query that equals the query of the call up to letter case and
\* surrounding whitespace: the text of the request that stored the entry
C29_KeyOfOriginalQuery ==
    /\ \A i \in 1..Len(cache) :
           cache[i].key = get_cache_key(cache[i].entities.original_query)
    /\ (last.op = "extract" /\ last.api = "none" /\ last.result # None) =>
           /\ strip(lower(last.result[1].original_query)) = strip(lower(last.query))
           /\ \E i \in 1..Len(cache) : cache[i].entities = last.result[1]

\* a call has been answered from the entry another text of the same key
\* stored
C29_Witness ==
    /\ last.op = "extract"
    /\ last.api = "none"
    /\ last.result # None
    /\ last.result[1].original_query # last.query

\* the entries are in the order of their timestamps
C30_Sorted ==
    \A i, j \in 1..Len(cache) : i < j => cache[i].timestamp <= cache[j].timestamp

\* the entry an extract call evicts is no younger than any entry that was
\* stored with it; an entry of the call's own key was removed as expired
\* before
C30_Step ==
    (last'.op = "extract" /\ last'.api = "ok") =>
        \A k \in CacheKeys(cache) \ CacheKeys(cache') :
            /\ Len(cache) >= cache_max_size
            /\ \A i \in 1..Len(cache) :
                   cache[i].key # get_cache_key(last'.query) =>
                       EntryOf(cache, k).timestamp <= cache[i].timestamp

\* C30: in the cache as extract_entities fills it under a clock that does
\* not go back, the entries in insertion order have non-decreasing
\* timestamps, and the entry evicted from a full cache is one with the
\* oldest timestamp, whether or not later entries have expired
C30_TimestampOrder == [](C30_Sorted) /\ [][C30_Step]_vars

\* an extract call has evicted the oldest entry of a full cache in which an
\* entry stored after it has expired and is still there
C30_Witness ==
    /\ last.op = "extract"
    /\ last.api = "ok"
    /\ last.size_before = cache_max_size
    /\ Len(cache) = cache_max_size
    /\ now - cache[1].timestamp >= cache_ttl

====
